---- MODULE Spec2Model ----
(***************************************************************************)
(* A model of tethys-data-models: the S3 object key templates (utils.py),  *)
(* the pydantic record models of dataset.py, base.py, permit.py, plan.py   *)
(* and geometry.py, and their JSON serialisation through orjson_dumps.     *)
(*                                                                         *)
(* The package is a library of pure functions (templates to format,        *)
(* models to construct, records to serialise).  A behaviour is one call:   *)
(* Init draws the operation and its input, the operation's action applies  *)
(* it and stores what it returned.                                         *)
(*                                                                         *)
(* Conventions.  A string whose characters matter (an object key, an       *)
(* identifier substituted into a key) is a sequence of one-character       *)
(* strings.  An optional value is a sequence of length at most one: <<>>   *)
(* is Python's None (or a key absent from the input), <<v>> is the value   *)
(* v.  A datetime is [sec, usec]; a date is a day number.                  *)
(***************************************************************************)
EXTENDS Integers, Sequences, FiniteSets, TLC

VARIABLES op, input, output, pc

vars == <<op, input, output, pc>>

None == <<>>

Some(v) == <<v>>

IsNone(o) == o = <<>>

(***************************************************************************)
(* utils.py: key_patterns.  A template is the sequence of its parts: the   *)
(* literal text between replacement fields, and the replacement fields     *)
(* {name} of Python's format-string syntax.                                *)
(***************************************************************************)
Lit(chars) == [field |-> "", text |-> chars]

Fld(name) == [field |-> name, text |-> <<>>]

key_patterns_v2 ==
  [
    \* 'tethys/v2/{dataset_id}/{station_id}/{run_date}/results.nc.zst'
    results |->
      <<Lit(<<"t", "e", "t", "h", "y", "s", "/", "v", "2", "/">>),
        Fld("dataset_id"),
        Lit(<<"/">>),
        Fld("station_id"),
        Lit(<<"/">>),
        Fld("run_date"),
        Lit(<<"/", "r", "e", "s", "u", "l", "t", "s", ".", "n", "c", ".", "z", "s", "t">>)>>,
    \* 'tethys/v2/datasets.json.zst'
    datasets |->
      <<Lit(<<"t", "e", "t", "h", "y", "s", "/", "v", "2", "/", "d", "a", "t", "a", "s", "e", "t", "s", ".", "j", "s", "o", "n", ".", "z", "s", "t">>)>>,
    \* 'tethys/v2/{dataset_id}/stations.json.zst'
    stations |->
      <<Lit(<<"t", "e", "t", "h", "y", "s", "/", "v", "2", "/">>),
        Fld("dataset_id"),
        Lit(<<"/", "s", "t", "a", "t", "i", "o", "n", "s", ".", "j", "s", "o", "n", ".", "z", "s", "t">>)>>,
    \* 'tethys/v2/{dataset_id}/{station_id}/station.json.zst'
    station |->
      <<Lit(<<"t", "e", "t", "h", "y", "s", "/", "v", "2", "/">>),
        Fld("dataset_id"),
        Lit(<<"/">>),
        Fld("station_id"),
        Lit(<<"/", "s", "t", "a", "t", "i", "o", "n", ".", "j", "s", "o", "n", ".", "z", "s", "t">>)>>,
    \* 'tethys/v2/{dataset_id}/dataset.json.zst'
    dataset |->
      <<Lit(<<"t", "e", "t", "h", "y", "s", "/", "v", "2", "/">>),
        Fld("dataset_id"),
        Lit(<<"/", "d", "a", "t", "a", "s", "e", "t", ".", "j", "s", "o", "n", ".", "z", "s", "t">>)>>,
    \* 'tethys/v2/{dataset_id}/results_object_keys.json.zst'
    results_object_keys |->
      <<Lit(<<"t", "e", "t", "h", "y", "s", "/", "v", "2", "/">>),
        Fld("dataset_id"),
        Lit(<<"/", "r", "e", "s", "u", "l", "t", "s", "_", "o", "b", "j", "e", "c", "t", "_", "k", "e", "y", "s", ".", "j", "s", "o", "n", ".", "z", "s", "t">>)>>,
    \* 'tethys/v2/diagnostics/{run_id}.json.zst'
    diagnostics |->
      <<Lit(<<"t", "e", "t", "h", "y", "s", "/", "v", "2", "/", "d", "i", "a", "g", "n", "o", "s", "t", "i", "c", "s", "/">>),
        Fld("run_id"),
        Lit(<<".", "j", "s", "o", "n", ".", "z", "s", "t">>)>>,
    \* 'tethys/v2/interim/{run_id}/{dataset_id}/{version_date}/{station_id}.{start_date}.nc.zst'
    interim_results |->
      <<Lit(<<"t", "e", "t", "h", "y", "s", "/", "v", "2", "/", "i", "n", "t", "e", "r", "i", "m", "/">>),
        Fld("run_id"),
        Lit(<<"/">>),
        Fld("dataset_id"),
        Lit(<<"/">>),
        Fld("version_date"),
        Lit(<<"/">>),
        Fld("station_id"),
        Lit(<<".">>),
        Fld("start_date"),
        Lit(<<".", "n", "c", ".", "z", "s", "t">>)>>
  ]

key_patterns_v3 ==
  [
    \* 'tethys/v3/{dataset_id}/{station_id}/{run_date}.results.nc.zst'
    results |->
      <<Lit(<<"t", "e", "t", "h", "y", "s", "/", "v", "3", "/">>),
        Fld("dataset_id"),
        Lit(<<"/">>),
        Fld("station_id"),
        Lit(<<"/">>),
        Fld("run_date"),
        Lit(<<".", "r", "e", "s", "u", "l", "t", "s", ".", "n", "c", ".", "z", "s", "t">>)>>,
    \* 'tethys/v3.datasets.json.zst'
    datasets |->
      <<Lit(<<"t", "e", "t", "h", "y", "s", "/", "v", "3", ".", "d", "a", "t", "a", "s", "e", "t", "s", ".", "j", "s", "o", "n", ".", "z", "s", "t">>)>>,
    \* 'tethys/v3/{dataset_id}.stations.json.zst'
    stations |->
      <<Lit(<<"t", "e", "t", "h", "y", "s", "/", "v", "3", "/">>),
        Fld("dataset_id"),
        Lit(<<".", "s", "t", "a", "t", "i", "o", "n", "s", ".", "j", "s", "o", "n", ".", "z", "s", "t">>)>>,
    \* 'tethys/v3/{dataset_id}/{station_id}.station.json.zst'
    station |->
      <<Lit(<<"t", "e", "t", "h", "y", "s", "/", "v", "3", "/">>),
        Fld("dataset_id"),
        Lit(<<"/">>),
        Fld("station_id"),
        Lit(<<".", "s", "t", "a", "t", "i", "o", "n", ".", "j", "s", "o", "n", ".", "z", "s", "t">>)>>,
    \* 'tethys/v3/{dataset_id}.dataset.json.zst'
    dataset |->
      <<Lit(<<"t", "e", "t", "h", "y", "s", "/", "v", "3", "/">>),
        Fld("dataset_id"),
        Lit(<<".", "d", "a", "t", "a", "s", "e", "t", ".", "j", "s", "o", "n", ".", "z", "s", "t">>)>>,
    \* 'tethys/v3/{dataset_id}.results_object_keys.json.zst'
    results_object_keys |->
      <<Lit(<<"t", "e", "t", "h", "y", "s", "/", "v", "3", "/">>),
        Fld("dataset_id"),
        Lit(<<".", "r", "e", "s", "u", "l", "t", "s", "_", "o", "b", "j", "e", "c", "t", "_", "k", "e", "y", "s", ".", "j", "s", "o", "n", ".", "z", "s", "t">>)>>,
    \* 'tethys/v3/diagnostics/{run_id}.json.zst'
    diagnostics |->
      <<Lit(<<"t", "e", "t", "h", "y", "s", "/", "v", "3", "/", "d", "i", "a", "g", "n", "o", "s", "t", "i", "c", "s", "/">>),
        Fld("run_id"),
        Lit(<<".", "j", "s", "o", "n", ".", "z", "s", "t">>)>>,
    \* 'tethys/v3/interim/{run_id}/{dataset_id}/{version_date}/{station_id}.{start_date}.nc.zst'
    interim_results |->
      <<Lit(<<"t", "e", "t", "h", "y", "s", "/", "v", "3", "/", "i", "n", "t", "e", "r", "i", "m", "/">>),
        Fld("run_id"),
        Lit(<<"/">>),
        Fld("dataset_id"),
        Lit(<<"/">>),
        Fld("version_date"),
        Lit(<<"/">>),
        Fld("station_id"),
        Lit(<<".">>),
        Fld("start_date"),
        Lit(<<".", "n", "c", ".", "z", "s", "t">>)>>
  ]

key_patterns_v4 ==
  [
    \* 'tethys/v4/{dataset_id}/{station_id}/{chunk_id}.{version_date}.results.nc.zst'
    results |->
      <<Lit(<<"t", "e", "t", "h", "y", "s", "/", "v", "4", "/">>),
        Fld("dataset_id"),
        Lit(<<"/">>),
        Fld("station_id"),
        Lit(<<"/">>),
        Fld("chunk_id"),
        Lit(<<".">>),
        Fld("version_date"),
        Lit(<<".", "r", "e", "s", "u", "l", "t", "s", ".", "n", "c", ".", "z", "s", "t">>)>>,
    \* 'tethys/v4.datasets.json.zst'
    datasets |->
      <<Lit(<<"t", "e", "t", "h", "y", "s", "/", "v", "4", ".", "d", "a", "t", "a", "s", "e", "t", "s", ".", "j", "s", "o", "n", ".", "z", "s", "t">>)>>,
    \* 'tethys/v4/{dataset_id}.stations.json.zst'
    stations |->
      <<Lit(<<"t", "e", "t", "h", "y", "s", "/", "v", "4", "/">>),
        Fld("dataset_id"),
        Lit(<<".", "s", "t", "a", "t", "i", "o", "n", "s", ".", "j", "s", "o", "n", ".", "z", "s", "t">>)>>,
    \* 'tethys/v4/{dataset_id}/{station_id}.station.json.zst'
    station |->
      <<Lit(<<"t", "e", "t", "h", "y", "s", "/", "v", "4", "/">>),
        Fld("dataset_id"),
        Lit(<<"/">>),
        Fld("station_id"),
        Lit(<<".", "s", "t", "a", "t", "i", "o", "n", ".", "j", "s", "o", "n", ".", "z", "s", "t">>)>>,
    \* 'tethys/v4/{dataset_id}.dataset.json.zst'
    dataset |->
      <<Lit(<<"t", "e", "t", "h", "y", "s", "/", "v", "4", "/">>),
        Fld("dataset_id"),
        Lit(<<".", "d", "a", "t", "a", "s", "e", "t", ".", "j", "s", "o", "n", ".", "z", "s", "t">>)>>,
    \* 'tethys/v4/{dataset_id}.versions.json.zst'
    versions |->
      <<Lit(<<"t", "e", "t", "h", "y", "s", "/", "v", "4", "/">>),
        Fld("dataset_id"),
        Lit(<<".", "v", "e", "r", "s", "i", "o", "n", "s", ".", "j", "s", "o", "n", ".", "z", "s", "t">>)>>,
    \* 'tethys/v4/diagnostics/{run_id}.json.zst'
    diagnostics |->
      <<Lit(<<"t", "e", "t", "h", "y", "s", "/", "v", "4", "/", "d", "i", "a", "g", "n", "o", "s", "t", "i", "c", "s", "/">>),
        Fld("run_id"),
        Lit(<<".", "j", "s", "o", "n", ".", "z", "s", "t">>)>>,
    \* 'tethys/v4/interim/{run_id}/{dataset_id}/{station_id}.{start_date}.nc.zst'
    interim_results |->
      <<Lit(<<"t", "e", "t", "h", "y", "s", "/", "v", "4", "/", "i", "n", "t", "e", "r", "i", "m", "/">>),
        Fld("run_id"),
        Lit(<<"/">>),
        Fld("dataset_id"),
        Lit(<<"/">>),
        Fld("station_id"),
        Lit(<<".">>),
        Fld("start_date"),
        Lit(<<".", "n", "c", ".", "z", "s", "t">>)>>
  ]
\* key_patterns with the version 4 station template joining the two identifiers by '.'.
key_patterns_dotted ==
  2 :> key_patterns_v2 @@ 3 :> key_patterns_v3
    @@ 4 :> [key_patterns_v4 EXCEPT !.station =
               <<Lit(<<"t", "e", "t", "h", "y", "s", "/", "v", "4", "/">>),
                 Fld("dataset_id"),
                 Lit(<<".">>),
                 Fld("station_id"),
                 Lit(<<".", "s", "t", "a", "t", "i", "o", "n", ".", "j", "s", "o", "n", ".", "z", "s", "t">>)>>]

\* key_patterns with the version 4 'results' template addressed by run_date as in version 3.
key_patterns_blob ==
  2 :> key_patterns_v2 @@ 3 :> key_patterns_v3
    @@ 4 :> [key_patterns_v4 EXCEPT !.results = key_patterns_v3.results]

\* key_patterns with the version 3 templates registered under version 4 as well.
key_patterns_misfiled ==
  2 :> key_patterns_v2 @@ 3 :> key_patterns_v3 @@ 4 :> key_patterns_v3

key_patterns ==
  2 :> key_patterns_v2 @@ 3 :> key_patterns_v3 @@ 4 :> key_patterns_v4

\* The replacement fields a template names.
TemplateFields(template) ==
  {template[i].field : i \in {j \in DOMAIN template : template[j].field # ""}}

\* The replacement fields used anywhere in key_patterns.
Placeholders ==
  UNION {UNION {TemplateFields(key_patterns[v][r]) : r \in DOMAIN key_patterns[v]} :
           v \in DOMAIN key_patterns}

(***************************************************************************)
(* str.format on a template: the parts are rendered left to right; a     *)
(* replacement field is replaced by the value given for its name, a name   *)
(* with no value raises KeyError and no string is produced; values given   *)
(* for names the template does not use are ignored.                        *)
(***************************************************************************)
RECURSIVE FormatFrom(_, _, _)
FormatFrom(template, params, i) ==
  IF i > Len(template) THEN [ok |-> TRUE, text |-> <<>>]
  ELSE LET part == template[i] IN
       IF part.field # "" /\ part.field \notin DOMAIN params
       THEN [ok |-> FALSE, text |-> <<>>]
       ELSE LET rest == FormatFrom(template, params, i + 1) IN
            IF ~rest.ok THEN rest
            ELSE [ok |-> TRUE,
                  text |-> (IF part.field # "" THEN params[part.field] ELSE part.text)
                           \o rest.text]

\* A formatter that renders a replacement field with no value as the empty string.
RECURSIVE FormatLenientFrom(_, _, _)
FormatLenientFrom(template, params, i) ==
  IF i > Len(template) THEN <<>>
  ELSE LET part == template[i] IN
       (IF part.field = "" THEN part.text
        ELSE IF part.field \in DOMAIN params THEN params[part.field] ELSE <<>>)
       \o FormatLenientFrom(template, params, i + 1)

FormatLenient(template, params) ==
  [ok |-> TRUE, text |-> FormatLenientFrom(template, params, 1)]

Format(template, params) == FormatFrom(template, params, 1)

(***************************************************************************)
(* Rendering a key: the template registered for (version, role), formatted *)
(* with the caller's parameters.                                           *)
(***************************************************************************)
Render(version, role, params) ==
  IF version \notin DOMAIN key_patterns
  THEN [status |-> "UnknownVersion", key |-> <<>>]
  ELSE IF role \notin DOMAIN key_patterns[version]
  THEN [status |-> "UnknownRole", key |-> <<>>]
  ELSE LET r == Format(key_patterns[version][role], params) IN
       IF r.ok THEN [status |-> "ok", key |-> r.text]
       ELSE [status |-> "MissingParameter", key |-> <<>>]

(***************************************************************************)
(* Inputs of a rendering call.                                             *)
(***************************************************************************)
MaxIdLen == 1

IdAlphabet == {"a", "."}

SeqsUpTo(S, n) == UNION {[1..k -> S] : k \in 1..n}

Abc == <<"a", "b", "c">>

Xyz == <<"x", "y", "z">>

Idents == {Abc, Xyz} \cup SeqsUpTo(IdAlphabet, MaxIdLen)

\* Values for the placeholders that are not identifiers of a dataset or station.
OtherValue ==
  [run_date |-> <<"r", "d">>, chunk_id |-> <<"c", "1">>, version_date |-> <<"v", "d">>,
   start_date |-> <<"s", "d">>, run_id |-> <<"r", "1">>,
   dataset_id |-> <<>>, station_id |-> <<>>]

Valuations ==
  {[p \in Placeholders |->
      IF p = "dataset_id" THEN d ELSE IF p = "station_id" THEN s ELSE OtherValue[p]] :
   d \in Idents, s \in Idents}

Restrict(f, S) == [x \in S |-> f[x]]

AllRoles == UNION {DOMAIN key_patterns[v] : v \in DOMAIN key_patterns}

RenderInputs ==
  {[version |-> v, role |-> r, params |-> Restrict(val, P)] :
     v \in 2..5, r \in AllRoles \cup {"results_chunks"},
     val \in Valuations, P \in SUBSET Placeholders}

\* Identifier values that hold the separators of the templates.
SeparatorIds == {<<"a">>, <<"a", "/", "a">>, <<"a", ".", "a">>}

\* Two parameter sets for the version 4 'results' template.
ChunkKeyParams ==
  [dataset_id : SeparatorIds, station_id : SeparatorIds, chunk_id : SeparatorIds,
   version_date : SeparatorIds]

\* Identifier values that read like the literal text of a template.
LiteralIds ==
  {<<"a">>,
   <<"d", "i", "a", "g", "n", "o", "s", "t", "i", "c", "s">>,
   <<"d", "a", "t", "a", "s", "e", "t">>,
   <<"a", ".", "s", "t", "a", "t", "i", "o", "n">>}

\* The parameter sets for one template: its own replacement fields, the identifiers of
\* the dataset, the station and the run drawn from LiteralIds.
RoleParams(version, role) ==
  {[p \in TemplateFields(key_patterns[version][role]) |->
      IF p = "dataset_id" THEN d ELSE IF p = "station_id" THEN s
      ELSE IF p = "run_id" THEN r ELSE OtherValue[p]] :
   d \in LiteralIds, s \in LiteralIds, r \in LiteralIds}

\* Two rendering calls under one version.
RenderPairInputs ==
  [version : {4}, role1 : {"results"}, params1 : ChunkKeyParams, role2 : {"results"},
   params2 : ChunkKeyParams]
  \cup
  UNION {UNION {UNION {
      [version : {v}, role1 : {r1}, params1 : RoleParams(v, r1), role2 : {r2},
       params2 : RoleParams(v, r2)] :
      r2 \in DOMAIN key_patterns[v] \ {r1}} :
    r1 \in DOMAIN key_patterns[v]} :
    v \in DOMAIN key_patterns}

(***************************************************************************)
(* pydantic (version 1) validation.  Constructing a model from keyword     *)
(* arguments checks every field: a required field must be given, a given  *)
(* value must satisfy the field's type and constraints.  The result is the *)
(* record, or a ValidationError naming the offending fields.  A model has  *)
(* no validator beyond its field declarations.                             *)
(***************************************************************************)
Valid(value) == [ok |-> TRUE, errors |-> {}, value |-> Some(value)]

Invalid(fields) == [ok |-> FALSE, errors |-> fields, value |-> None]

Validated(errors, value) == IF errors = {} THEN Valid(value) ELSE Invalid(errors)

\* Field(...): the required fields among `fields` that the input does not give.
MissingFields(raw, fields) == {f \in fields : IsNone(raw[f])}

\* The error of one field: `ok` says that the field is absent, or that its value has the
\* field's type and satisfies its constraints.
FieldError(name, ok) == IF ok THEN {} ELSE {name}


(***************************************************************************)
(* datetime values.  A datetime object is [kind |-> "datetime", sec, usec];*)
(* its ISO-8601 text, as JSON carries it, is [kind |-> "str", sec, usec]   *)
(* with the digits the text shows.  pydantic accepts both for a datetime   *)
(* field and yields the datetime object.                                   *)
(***************************************************************************)
DateTime(sec, usec) == [kind |-> "datetime", sec |-> sec, usec |-> usec]

parse_datetime(v) == DateTime(v.sec, v.usec)

DateTimeLE(a, b) == a.sec < b.sec \/ (a.sec = b.sec /\ a.usec <= b.usec)

(***************************************************************************)
(* dataset.py: ChunkParams                                                 *)
(***************************************************************************)
\* A block_length constraint that admits 0.
ChunkParams_block_length_ge(v) == v >= 0

\* block_length: confloat(gt=0)
ChunkParams_block_length(v) == v > 0

\* time_interval: conint(gt=0)
ChunkParams_time_interval(v) == v > 0

ChunkParams(raw) ==
  Validated(FieldError("block_length", IsNone(raw.block_length)
                         \/ ChunkParams_block_length(raw.block_length[1]))
              \cup FieldError("time_interval", IsNone(raw.time_interval)
                                \/ ChunkParams_time_interval(raw.time_interval[1])),
            [block_length |-> raw.block_length, time_interval |-> raw.time_interval])

(***************************************************************************)
(* dataset.py: TimeRange                                                   *)
(***************************************************************************)
TimeRange(raw) ==
  Validated(MissingFields(raw, {"from_date", "to_date"}),
            [from_date |-> Some(parse_datetime(raw.from_date[1])),
             to_date |-> Some(parse_datetime(raw.to_date[1]))])

(***************************************************************************)
(* dataset.py: ResultChunk and ChunkID                                     *)
(***************************************************************************)
\* content_length: conint(gt=0)
ResultChunk_content_length(v) == v > 0

\* A chunk_day constraint with exclusive bounds.
ResultChunk_chunk_day_exclusive(v) == v > -106751 /\ v < 106751

\* chunk_day: conint(ge=-106751, le=106751)
ResultChunk_chunk_day(v) == v >= -106751 /\ v <= 106751

\* band: conint(ge=0)
ResultChunk_band(v) == v >= 0

ResultChunk(raw) ==
  Validated(MissingFields(raw, {"chunk_id", "key", "content_length", "version_date",
                                "chunk_hash", "dataset_id", "station_id"})
              \cup FieldError("content_length", IsNone(raw.content_length)
                                \/ ResultChunk_content_length(raw.content_length[1]))
              \cup FieldError("chunk_day", IsNone(raw.chunk_day)
                                \/ ResultChunk_chunk_day(raw.chunk_day[1]))
              \cup FieldError("band", IsNone(raw.band) \/ ResultChunk_band(raw.band[1])),
            [raw EXCEPT !.version_date = Some(parse_datetime(raw.version_date[1]))])

\* chunk_day: conint(ge=-106751, le=106751)
ChunkID_chunk_day(v) == v >= -106751 /\ v <= 106751

\* band: conint(ge=0)
ChunkID_band(v) == v >= 0

ChunkID(raw) ==
  Validated(FieldError("chunk_day", IsNone(raw.chunk_day) \/ ChunkID_chunk_day(raw.chunk_day[1]))
              \cup FieldError("band", IsNone(raw.band) \/ ChunkID_band(raw.band[1])),
            [height |-> raw.height, chunk_day |-> raw.chunk_day, band |-> raw.band])

(***************************************************************************)
(* dataset.py: ResultType and the dimensions of each result type           *)
(***************************************************************************)
ResultType ==
  {"time_series", "grid", "trajectory", "time_series_bands", "grid_bands", "trajectory_bands"}

TimeSeriesDims == {"time", "geometry", "height"}

GridDims == {"time", "lat", "lon", "height"}

TrajectoryDims == {"geometry"}

TimeSeriesBandsDims == {"time", "geometry", "height", "band"}

GridBandsDims == {"time", "lat", "lon", "height", "band"}

TrajectoryBandsDims == {"geometry", "band"}

\* The fields of each dimensions class, by class name.
DimsFields ==
  [TimeSeriesDims |-> TimeSeriesDims, GridDims |-> GridDims, TrajectoryDims |-> TrajectoryDims,
   TimeSeriesBandsDims |-> TimeSeriesBandsDims, GridBandsDims |-> GridBandsDims,
   TrajectoryBandsDims |-> TrajectoryBandsDims]

result_type_dict ==
  [time_series |-> "TimeSeriesDims", grid |-> "GridDims", trajectory |-> "TrajectoryDims",
   time_series_bands |-> "TimeSeriesBandsDims", grid_bands |-> "GridBandsDims",
   trajectory_bands |-> "TrajectoryBandsDims"]

\* ResultDims = Union[TimeSeriesDims, GridDims, TrajectoryDims, TimeSeriesBandsDims,
\*                    GridBandsDims, TrajectoryBandsDims], in the order of the Union.
ResultDims ==
  <<"TimeSeriesDims", "GridDims", "TrajectoryDims", "TimeSeriesBandsDims", "GridBandsDims",
    "TrajectoryBandsDims">>

\* One dimensions class built from a mapping `raw` of field names to integers: every
\* field of the class is required; a BaseModel ignores the keys it does not declare.
DimsModel(class, raw) ==
  Validated(DimsFields[class] \ DOMAIN raw,
            [class |-> class, fields |-> Restrict(raw, DimsFields[class] \cap DOMAIN raw)])

\* A field of type ResultDims: pydantic tries the members of the Union from left to
\* right and keeps the first that validates.
RECURSIVE ResultDimsFrom(_, _)
ResultDimsFrom(raw, i) ==
  IF i > Len(ResultDims) THEN Invalid({"dimensions"})
  ELSE IF DimsModel(ResultDims[i], raw).ok THEN DimsModel(ResultDims[i], raw)
  ELSE ResultDimsFrom(raw, i + 1)

ValidateResultDims(raw) == ResultDimsFrom(raw, 1)

(***************************************************************************)
(* geometry.py.  A coordinates value is a tree: a number, or a list of     *)
(* trees.                                                                  *)
(***************************************************************************)
Num(v) == [leaf |-> TRUE, v |-> v, items |-> <<>>]

List(items) == [leaf |-> FALSE, v |-> 0, items |-> items]

\* A coordinate tuple with min_items=2 and no max_items.
lat_lon_unbounded(c) ==
  /\ ~c.leaf
  /\ Len(c.items) >= 2
  /\ \A i \in DOMAIN c.items : c.items[i].leaf

\* lat_lon = Union[conlist(float, min_items=2, max_items=3), conlist(int, ...)]
lat_lon(c) ==
  /\ ~c.leaf
  /\ Len(c.items) >= 2 /\ Len(c.items) <= 3
  /\ \A i \in DOMAIN c.items : c.items[i].leaf

\* conlist(lat_lon, min_items=1)
lat_lon_list(c) ==
  /\ ~c.leaf
  /\ Len(c.items) >= 1
  /\ \A i \in DOMAIN c.items : lat_lon(c.items[i])

\* conlist(conlist(lat_lon, min_items=1), min_items=1)
lat_lon_list_list(c) ==
  /\ ~c.leaf
  /\ Len(c.items) >= 1
  /\ \A i \in DOMAIN c.items : lat_lon_list(c.items[i])

\* conlist(conlist(conlist(lat_lon, min_items=1), min_items=1), min_items=1)
lat_lon_list_list_list(c) ==
  /\ ~c.leaf
  /\ Len(c.items) >= 1
  /\ \A i \in DOMAIN c.items : lat_lon_list_list(c.items[i])

Point(raw) == raw.type = "Point" /\ lat_lon(raw.coordinates)

LineString(raw) == raw.type = "LineString" /\ lat_lon_list(raw.coordinates)

MultiPoint(raw) == raw.type = "MultiPoint" /\ lat_lon_list(raw.coordinates)

MultiLineString(raw) == raw.type = "MultiLineString" /\ lat_lon_list_list(raw.coordinates)

Polygon(raw) == raw.type = "Polygon" /\ lat_lon_list_list(raw.coordinates)

MultiPolygon(raw) == raw.type = "MultiPolygon" /\ lat_lon_list_list_list(raw.coordinates)

\* geometry = Union[Point, LineString, Polygon, MultiLineString, MultiPoint, MultiPolygon]:
\* the first member that validates; the value keeps the type tag and the coordinates.
geometry(raw) ==
  IF Point(raw) THEN Valid([class |-> "Point", type |-> raw.type, coordinates |-> raw.coordinates])
  ELSE IF LineString(raw)
  THEN Valid([class |-> "LineString", type |-> raw.type, coordinates |-> raw.coordinates])
  ELSE IF Polygon(raw)
  THEN Valid([class |-> "Polygon", type |-> raw.type, coordinates |-> raw.coordinates])
  ELSE IF MultiLineString(raw)
  THEN Valid([class |-> "MultiLineString", type |-> raw.type, coordinates |-> raw.coordinates])
  ELSE IF MultiPoint(raw)
  THEN Valid([class |-> "MultiPoint", type |-> raw.type, coordinates |-> raw.coordinates])
  ELSE IF MultiPolygon(raw)
  THEN Valid([class |-> "MultiPolygon", type |-> raw.type, coordinates |-> raw.coordinates])
  ELSE Invalid({"geometry"})

OptDateTime(o) == IF IsNone(o) THEN None ELSE Some(parse_datetime(o[1]))

(***************************************************************************)
(* dataset.py: Stats.  A float is [nan, v]: Python's float('nan'), which   *)
(* pydantic accepts for a float field, or the finite number v.             *)
(***************************************************************************)
Float(v) == [nan |-> FALSE, v |-> v]

NaN == [nan |-> TRUE, v |-> 0]

Stats(raw) ==
  Validated(MissingFields(raw, {"min", "max", "mean", "median", "count"}), raw)

(***************************************************************************)
(* base.py: Station, and dataset.py: StationBase and Station               *)
(***************************************************************************)
BaseStationErrors(raw) ==
  MissingFields(raw, {"station_id", "geometry"}) \cup FieldError("geometry", IsNone(raw.geometry)
                                                                   \/ geometry(raw.geometry[1]).ok)

StationBaseErrors(raw) ==
  BaseStationErrors(raw)
    \cup MissingFields(raw, {"dataset_id", "dimensions", "heights", "time_range", "stats"})
    \cup FieldError("dimensions", IsNone(raw.dimensions)
                      \/ ValidateResultDims(raw.dimensions[1]).ok)
    \cup FieldError("time_range", IsNone(raw.time_range) \/ TimeRange(raw.time_range[1]).ok)
    \cup FieldError("stats", IsNone(raw.stats) \/ Stats(raw.stats[1]).ok)

StationBaseValue(raw) ==
  [raw EXCEPT !.geometry = (IF IsNone(raw.geometry) THEN None ELSE geometry(raw.geometry[1]).value),
              !.dimensions = (IF IsNone(raw.dimensions) THEN None
                              ELSE ValidateResultDims(raw.dimensions[1]).value),
              !.time_range = (IF IsNone(raw.time_range) THEN None
                              ELSE TimeRange(raw.time_range[1]).value),
              !.stats = (IF IsNone(raw.stats) THEN None ELSE Stats(raw.stats[1]).value)]

StationBase(raw) == Validated(StationBaseErrors(raw), StationBaseValue(raw))

ResultChunkOk(raw) == ResultChunk(raw).ok

Station(raw) ==
  Validated(StationBaseErrors(raw)
              \cup MissingFields(raw, {"results_chunks", "modified_date"})
              \cup FieldError("results_chunks", IsNone(raw.results_chunks)
                             \/ \A i \in DOMAIN raw.results_chunks[1] : ResultChunkOk(raw.results_chunks[1][i])),
            [StationBaseValue(raw) EXCEPT
               !.results_chunks =
                  Some([i \in DOMAIN raw.results_chunks[1] |->
                          ResultChunk(raw.results_chunks[1][i]).value[1]]),
               !.modified_date = OptDateTime(raw.modified_date)])

(***************************************************************************)
(* dataset.py: DatasetBase, Dataset and ParameterAttrs                     *)
(***************************************************************************)
\* The fields of DatasetBase, all required strings.
DatasetBase ==
  {"feature", "parameter", "method", "product_code", "owner", "aggregation_statistic",
   "frequency_interval", "utc_offset"}

\* system_version: conint(gt=1)
Dataset_system_version(v) == v > 1

\* bands: List[conint(ge=0)]
Dataset_bands_item(v) == v >= 0

\* result_type: str
Dataset_result_type(v) == TRUE

Dataset(raw) ==
  Validated(MissingFields(raw, DatasetBase)
              \cup MissingFields(raw, {"dataset_id", "units", "license", "attribution",
                                       "result_type", "precision"})
              \cup FieldError("result_type", IsNone(raw.result_type)
                                \/ Dataset_result_type(raw.result_type[1]))
              \cup FieldError("extent", IsNone(raw.extent) \/ geometry(raw.extent[1]).ok)
              \cup FieldError("time_range", IsNone(raw.time_range)
                                \/ TimeRange(raw.time_range[1]).ok)
              \cup FieldError("system_version", IsNone(raw.system_version)
                                \/ Dataset_system_version(raw.system_version[1]))
              \cup FieldError("bands", IsNone(raw.bands)
                             \/ \A i \in DOMAIN raw.bands[1] : Dataset_bands_item(raw.bands[1][i]))
              \cup FieldError("chunk_parameters", IsNone(raw.chunk_parameters)
                                \/ ChunkParams(raw.chunk_parameters[1]).ok),
            [raw EXCEPT !.extent = (IF IsNone(raw.extent) THEN None
                                    ELSE geometry(raw.extent[1]).value),
                        !.time_range = (IF IsNone(raw.time_range) THEN None
                                        ELSE TimeRange(raw.time_range[1]).value),
                        !.modified_date = OptDateTime(raw.modified_date),
                        !.chunk_parameters = (IF IsNone(raw.chunk_parameters) THEN None
                                              ELSE ChunkParams(raw.chunk_parameters[1]).value)])

\* result_type: str
ParameterAttrs_result_type(v) == TRUE

ParameterAttrs(raw) ==
  Validated(MissingFields(raw, DatasetBase)
              \cup MissingFields(raw, {"dataset_id", "units", "license", "attribution",
                                       "result_type"})
              \cup FieldError("result_type", IsNone(raw.result_type)
                                \/ ParameterAttrs_result_type(raw.result_type[1])),
            raw)

(***************************************************************************)
(* dataset.py: ResultVersion.  A URL is [scheme, host]; HttpUrl wants an   *)
(* http or https scheme and a host.                                        *)
(***************************************************************************)
HttpUrl(v) == v.scheme \in {"http", "https"} /\ v.host # ""

ResultVersion(raw) ==
  Validated(MissingFields(raw, {"dataset_id", "version_date", "modified_date"})
              \cup FieldError("doi", IsNone(raw.doi) \/ HttpUrl(raw.doi[1])),
            [raw EXCEPT !.version_date = OptDateTime(raw.version_date),
                        !.modified_date = OptDateTime(raw.modified_date)])

(***************************************************************************)
(* date values: a date object is [kind |-> "date", day]; its ISO text is   *)
(* [kind |-> "str", day].  pydantic accepts both for a date field.         *)
(***************************************************************************)
Date(day) == [kind |-> "date", day |-> day]

parse_date(v) == Date(v.day)

OptDate(o) == IF IsNone(o) THEN None ELSE Some(parse_date(o[1]))

(***************************************************************************)
(* plan.py: Plan                                                           *)
(***************************************************************************)
Plan(raw) ==
  Validated(MissingFields(raw, {"plan_id", "plan_name", "commencement_date", "plan_authority"}),
            [raw EXCEPT !.commencement_date = OptDate(raw.commencement_date)])

(***************************************************************************)
(* permit.py                                                               *)
(***************************************************************************)
Period == {"S", "H", "D", "W", "M", "Y"}

Units == {"l", "m3"}

LimitBoundary == {"min", "max"}

AggregationStat == {"min", "max", "median", "mean"}

ConditionType == {"abstraction limit"}

ActivityType ==
  {"consumptive take water", "non-consumptive take water", "divert water", "dam water",
   "use water", "discharge water"}

SdMethod == {"theis_1941", "hunt_1999", "hunt_2003", "hunt_2009", "ward_lough_2011"}

Feature == {"surface water", "groundwater"}

Status ==
  {"Expired", "Surrendered", "Active", "Archived", "Lapsed", "Superseded", "Cancelled",
   "Expired - S.124 Protection"}

PermitType == {"water permit"}

\* A field whose type is an Enum: the value must be one of the members' values.
InEnum(raw, fields, members) == {f \in fields : ~IsNone(raw[f]) /\ raw[f][1] \notin members}

Limit(raw) ==
  Validated(MissingFields(raw, {"value", "period", "units", "limit_boundary"})
              \cup InEnum(raw, {"period"}, Period)
              \cup InEnum(raw, {"units"}, Units)
              \cup InEnum(raw, {"limit_boundary"}, LimitBoundary)
              \cup InEnum(raw, {"aggregation_stat"}, AggregationStat),
            raw)

LimitOk(raw) == Limit(raw).ok

Condition(raw) ==
  Validated(MissingFields(raw, {"condition_type"})
              \cup InEnum(raw, {"condition_type"}, ConditionType)
              \cup FieldError("limit", IsNone(raw.limit)
                             \/ \A i \in DOMAIN raw.limit[1] : LimitOk(raw.limit[1][i])),
            raw)

ConditionOk(raw) == Condition(raw).ok

\* Every field of AquiferProp is Optional; the model lists the enum, a float and an int.
AquiferProp(raw) == Validated(InEnum(raw, {"method"}, SdMethod), raw)

\* permit.Station: base.Station with properties: AquiferProp, which is required.
PermitStation(raw) ==
  Validated(BaseStationErrors(raw)
              \cup MissingFields(raw, {"properties"})
              \cup FieldError("properties", IsNone(raw.properties)
                                \/ AquiferProp(raw.properties[1]).ok),
            [raw EXCEPT !.geometry = (IF IsNone(raw.geometry) THEN None
                                      ELSE geometry(raw.geometry[1]).value),
                        !.properties = (IF IsNone(raw.properties) THEN None
                                        ELSE AquiferProp(raw.properties[1]).value)])

PermitStationOk(raw) == PermitStation(raw).ok

Activity(raw) ==
  Validated(MissingFields(raw, {"activity_type", "feature", "station", "condition"})
              \cup InEnum(raw, {"activity_type"}, ActivityType)
              \cup InEnum(raw, {"feature"}, Feature)
              \cup FieldError("station", IsNone(raw.station)
                             \/ \A i \in DOMAIN raw.station[1] : PermitStationOk(raw.station[1][i]))
              \cup FieldError("condition", IsNone(raw.condition)
                             \/ \A i \in DOMAIN raw.condition[1] : ConditionOk(raw.condition[1][i])),
            [raw EXCEPT !.station =
                          Some([i \in DOMAIN raw.station[1] |->
                                  PermitStation(raw.station[1][i]).value[1]])])

Permit(raw) ==
  Validated(MissingFields(raw, {"permit_id", "status", "commencement_date", "expiry_date",
                                "exercised", "permitting_authority", "permit_type",
                                "activity", "modified_date"})
              \cup InEnum(raw, {"status"}, Status)
              \cup InEnum(raw, {"permit_type"}, PermitType)
              \cup FieldError("activity", IsNone(raw.activity) \/ Activity(raw.activity[1]).ok),
            [raw EXCEPT !.status_changed_date = OptDate(raw.status_changed_date),
                        !.commencement_date = OptDate(raw.commencement_date),
                        !.expiry_date = OptDate(raw.expiry_date),
                        !.effective_end_date = OptDate(raw.effective_end_date),
                        !.activity = (IF IsNone(raw.activity) THEN None
                                      ELSE Activity(raw.activity[1]).value),
                        !.modified_date = OptDateTime(raw.modified_date)])

(***************************************************************************)
(* utils.py: orjson_dumps, the json_dumps of the models' Config, and       *)
(* orjson.loads, their json_loads.  The JSON document of a record is the   *)
(* record of its fields' JSON values: null is None, a nested model is the  *)
(* object of its fields, and                                               *)
(*   - a datetime is its ISO text without the microseconds                 *)
(*     (OPT_OMIT_MICROSECONDS), a date its ISO text;                       *)
(*   - a Dict key that is not a str is written as its text                 *)
(*     (OPT_NON_STR_KEYS);                                                 *)
(*   - NaN is written as null.                                             *)
(***************************************************************************)
\* A key of a Dict: a str, or an int whose decimal text is `text`.
StrKey(text) == [type |-> "str", text |-> text]

IntKey(text) == [type |-> "int", text |-> text]

\* orjson without OPT_OMIT_MICROSECONDS: the text keeps the microseconds.
orjson_datetime_microseconds(dt) == [kind |-> "str", sec |-> dt.sec, usec |-> dt.usec]

orjson_datetime(dt) == [kind |-> "str", sec |-> dt.sec, usec |-> 0]

orjson_date(d) == [kind |-> "str", day |-> d.day]

orjson_key(k) == StrKey(k.text)

orjson_dict(d) ==
  [k \in {orjson_key(x) : x \in DOMAIN d} |-> d[CHOOSE x \in DOMAIN d : orjson_key(x) = k]]

orjson_float(o) == IF ~IsNone(o) /\ o[1].nan THEN None ELSE o

\* An optional datetime, and an optional date.
JsonDateTime(o) == IF IsNone(o) THEN None ELSE Some(orjson_datetime(o[1]))

JsonDate(o) == IF IsNone(o) THEN None ELSE Some(orjson_date(o[1]))

TimeRangeJson(v) ==
  [from_date |-> JsonDateTime(v.from_date),
   to_date |-> JsonDateTime(v.to_date)]

geometryJson(v) == [type |-> v.type, coordinates |-> v.coordinates]

ResultDimsJson(v) == v.fields

StatsJson(v) ==
  [v EXCEPT !.min = orjson_float(v.min), !.max = orjson_float(v.max),
            !.mean = orjson_float(v.mean), !.median = orjson_float(v.median)]

ResultChunkJson(v) == [v EXCEPT !.version_date = JsonDateTime(v.version_date)]

ResultVersionJson(v) ==
  [v EXCEPT !.version_date = JsonDateTime(v.version_date),
            !.modified_date = JsonDateTime(v.modified_date)]

ChunkParamsJson(v) == v

DatasetJson(v) ==
  [v EXCEPT !.extent = (IF IsNone(v.extent) THEN None ELSE Some(geometryJson(v.extent[1]))),
            !.time_range = (IF IsNone(v.time_range) THEN None
                            ELSE Some(TimeRangeJson(v.time_range[1]))),
            !.properties = (IF IsNone(v.properties) THEN None
                            ELSE Some(orjson_dict(v.properties[1]))),
            !.modified_date = JsonDateTime(v.modified_date),
            !.chunk_parameters = (IF IsNone(v.chunk_parameters) THEN None
                                  ELSE Some(ChunkParamsJson(v.chunk_parameters[1])))]

StationJson(v) ==
  [v EXCEPT !.geometry = (IF IsNone(v.geometry) THEN None ELSE Some(geometryJson(v.geometry[1]))),
            !.properties = (IF IsNone(v.properties) THEN None
                            ELSE Some(orjson_dict(v.properties[1]))),
            !.dimensions = (IF IsNone(v.dimensions) THEN None
                            ELSE Some(ResultDimsJson(v.dimensions[1]))),
            !.time_range = (IF IsNone(v.time_range) THEN None
                            ELSE Some(TimeRangeJson(v.time_range[1]))),
            !.stats = (IF IsNone(v.stats) THEN None ELSE Some(StatsJson(v.stats[1]))),
            !.results_chunks =
               Some([i \in DOMAIN v.results_chunks[1] |-> ResultChunkJson(v.results_chunks[1][i])]),
            !.modified_date = JsonDateTime(v.modified_date)]

PermitStationJson(v) == [v EXCEPT !.geometry = (IF IsNone(v.geometry) THEN None
                                                ELSE Some(geometryJson(v.geometry[1])))]

ActivityJson(v) ==
  [v EXCEPT !.station =
              Some([i \in DOMAIN v.station[1] |-> PermitStationJson(v.station[1][i])])]

PermitJson(v) ==
  [v EXCEPT !.status_changed_date = JsonDate(v.status_changed_date),
            !.commencement_date = JsonDate(v.commencement_date),
            !.expiry_date = JsonDate(v.expiry_date),
            !.effective_end_date = JsonDate(v.effective_end_date),
            !.activity = (IF IsNone(v.activity) THEN None ELSE Some(ActivityJson(v.activity[1]))),
            !.modified_date = JsonDateTime(v.modified_date)]

\* Plan has no Config: BaseModel.json writes a date as its ISO text.
PlanJson(v) == [v EXCEPT !.commencement_date = JsonDate(v.commencement_date)]

\* record.json() and Model.parse_raw of the text: the validation result `r` of the
\* input, the JSON document of the record and the result of validating the document.
RoundTrip(r, json, back) ==
  IF ~r.ok THEN [ok |-> FALSE, errors |-> r.errors, value |-> None, json |-> None, back |-> None]
  ELSE [ok |-> TRUE, errors |-> {}, value |-> r.value, json |-> Some(json), back |-> Some(back)]

DatasetRoundTrip(raw) ==
  LET json == DatasetJson(Dataset(raw).value[1]) IN RoundTrip(Dataset(raw), json, Dataset(json))

StationRoundTrip(raw) ==
  LET json == StationJson(Station(raw).value[1]) IN RoundTrip(Station(raw), json, Station(json))

ResultChunkRoundTrip(raw) ==
  LET json == ResultChunkJson(ResultChunk(raw).value[1])
  IN RoundTrip(ResultChunk(raw), json, ResultChunk(json))

ResultVersionRoundTrip(raw) ==
  LET json == ResultVersionJson(ResultVersion(raw).value[1])
  IN RoundTrip(ResultVersion(raw), json, ResultVersion(json))

PermitRoundTrip(raw) ==
  LET json == PermitJson(Permit(raw).value[1]) IN RoundTrip(Permit(raw), json, Permit(json))

PlanRoundTrip(raw) ==
  LET json == PlanJson(Plan(raw).value[1]) IN RoundTrip(Plan(raw), json, Plan(json))

(***************************************************************************)
(* Inputs of the model constructors.                                       *)
(***************************************************************************)
MaxSec == 1

ChunkDayMargin == 1

Opt(S) == {None} \cup {Some(v) : v \in S}

DateTimes == {DateTime(s, u) : s \in 0..MaxSec, u \in {0, 500000}}

ChunkDays ==
  {-1, 0, 1} \cup {-106751 + d : d \in -ChunkDayMargin..ChunkDayMargin}
             \cup {106751 + d : d \in -ChunkDayMargin..ChunkDayMargin}

ChunkParamsInputs ==
  [block_length : Opt(-1..2), time_interval : Opt({-1, 0, 1, 7})]

TimeRangeInputs == [from_date : Opt(DateTimes), to_date : Opt(DateTimes)]

ResultChunkFields ==
  [chunk_id : Opt({"c1"}), key : {Some("k1")}, content_length : Opt({0, 1}),
   version_date : Opt(DateTimes), chunk_hash : {Some("h1")}, dataset_id : {Some("d1")},
   station_id : {Some("s1")}, height : Opt({0, 1000}), chunk_day : Opt(ChunkDays),
   band : Opt({-1, 0, 1})]

\* A chunk is built for a station of a dataset; the dataset's result_type is not an
\* argument of the constructor.
ResultChunkInputs == [dataset_result_type : ResultType, fields : ResultChunkFields]

ChunkIDInputs == [height : Opt({0, 1000}), chunk_day : Opt(ChunkDays), band : Opt({-1, 0, 1})]

TimeRanges == [from_date : {Some(d) : d \in DateTimes}, to_date : {Some(d) : d \in DateTimes}]

PointGeometry == [type |-> "Point", coordinates |-> List(<<Num(1), Num(2)>>)]

EmptyPointGeometry == [type |-> "Point", coordinates |-> List(<<>>)]

LineGeometry ==
  [type |-> "LineString",
   coordinates |-> List(<<List(<<Num(1), Num(2)>>), List(<<Num(3), Num(4), Num(5)>>)>>)]

\* Coordinates values: a number, a list of up to MaxTupleLen numbers, lists of up to
\* MaxItems of those, and up to MaxDepth levels of lists of at most one item around them.
MaxTupleLen == 4

MaxItems == 2

MaxDepth == 4

ListsUpTo(S, n) == {List(items) : items \in UNION {[1..k -> S] : k \in 0..n}}

Tuples == {Num(1)} \cup ListsUpTo({Num(1)}, MaxTupleLen)

RECURSIVE Coordinates(_)
Coordinates(d) ==
  IF d = 0 THEN Tuples
  ELSE IF d = 1 THEN Tuples \cup ListsUpTo(Tuples, MaxItems)
  ELSE Coordinates(d - 1) \cup ListsUpTo(Coordinates(d - 1), 1)

GeometryTypes ==
  {"Point", "LineString", "MultiPoint", "MultiLineString", "Polygon", "MultiPolygon"}

GeometryInputs ==
  [type : GeometryTypes \cup {"Circle", "point"}, coordinates : Coordinates(MaxDepth)]

DimNames == {"time", "geometry", "lat", "lon", "height", "band"}

\* Every mapping of some of the dimension names to a length.
DimsInputs == UNION {[S -> {1}] : S \in SUBSET DimNames}

StatsSample ==
  [min |-> Some(Float(0)), max |-> Some(Float(2)), mean |-> Some(Float(1)),
   median |-> Some(Float(1)), count |-> Some(3)]

StationBaseFields ==
  [station_id : {Some("s1")}, ref : {None}, name : {None}, osm_id : {None},
   geometry : {Some(PointGeometry), Some(EmptyPointGeometry)}, altitude : {None},
   properties : {None}, dataset_id : {Some("d1")}, dimensions : Opt(DimsInputs),
   heights : {Some(<<0, 1000>>)}, time_range : Opt(TimeRanges), bands : {None},
   stats : {Some(StatsSample)}]

\* A station is built for a dataset; the dataset's result_type is not an argument of the
\* constructor.
StationBaseInputs == [dataset_result_type : ResultType, fields : StationBaseFields]

DatasetMinimal ==
  [feature |-> Some("waterway"), parameter |-> Some("streamflow"), method |-> Some("sensor"),
   product_code |-> Some("raw_data"), owner |-> Some("ecan"),
   aggregation_statistic |-> Some("mean"), frequency_interval |-> Some("24H"),
   utc_offset |-> Some("0H"), dataset_id |-> Some("d1"), units |-> Some("m3/s"),
   license |-> Some("cc-by"), attribution |-> Some("ecan"), result_type |-> Some("time_series"),
   extent |-> None, time_range |-> None, spatial_resolution |-> None, heights |-> None,
   cf_standard_name |-> None, wrf_standard_name |-> None, precision |-> Some(1),
   description |-> None, product_description |-> None, parent_datasets |-> None,
   properties |-> None, modified_date |-> None, system_version |-> None, bands |-> None,
   chunk_parameters |-> None]

\* Free-form properties: absent, or a one-entry Dict with a str or an int key.
PropertiesSamples == {None, Some(StrKey("1") :> "a"), Some(IntKey("1") :> "a")}

DatasetFull(modified_date, properties) ==
  [DatasetMinimal EXCEPT
     !.extent = Some(LineGeometry), !.spatial_resolution = Some(1), !.heights = Some(<<0, 1000>>),
     !.cf_standard_name = Some("cf"), !.wrf_standard_name = Some("wrf"),
     !.description = Some("flow"), !.product_description = Some("product"),
     !.parent_datasets = Some(<<"d0">>), !.properties = properties,
     !.modified_date = Some(modified_date), !.system_version = Some(4),
     !.bands = Some(<<0, 1>>)]

DatasetInputs ==
  {[base EXCEPT !.result_type = rt, !.time_range = tr, !.chunk_parameters = cp,
                !.system_version = IF sv = None THEN base.system_version ELSE sv] :
     base \in {DatasetMinimal} \cup {DatasetFull(d, p) : d \in DateTimes, p \in PropertiesSamples},
     rt \in Opt(ResultType \cup {"raster"}),
     tr \in Opt(TimeRanges),
     cp \in Opt([block_length : Opt({0, 1}), time_interval : Opt({7})]),
     sv \in Opt({1})}

ParameterAttrsInputs ==
  {[f \in DatasetBase \cup {"dataset_id", "units", "license", "attribution", "result_type",
                            "cf_standard_name", "wrf_standard_name", "precision",
                            "description"} |->
      IF f = "result_type" THEN rt ELSE IF f = "description" THEN ds
      ELSE IF f = "units" THEN un ELSE DatasetFull(DateTime(0, 0), None)[f]] :
     rt \in Opt(ResultType \cup {"raster"}), ds \in Opt({"flow"}), un \in Opt({"m3/s"})}

\* Two datasets: the second is the first with new values for the identity fields in
\* `changed`, with its own dataset_id and description.
DatasetPairInputs ==
  {<<[DatasetMinimal EXCEPT !.dataset_id = Some(id1)],
     [f \in DOMAIN DatasetMinimal |->
        IF f \in changed THEN Some("other")
        ELSE IF f = "dataset_id" THEN Some(id2)
        ELSE IF f = "description" THEN ds
        ELSE DatasetMinimal[f]]>> :
     changed \in SUBSET DatasetBase, id1 \in {"d1", "d2"}, id2 \in {"d1", "d2"},
     ds \in Opt({"flow"})}

ResultVersionInputs ==
  [dataset_id : {Some("d1")}, version_date : Opt(DateTimes), name : Opt({"v1"}),
   doi : Opt({[scheme |-> "https", host |-> "doi.org"], [scheme |-> "", host |-> ""]}),
   description : Opt({"first"}), modified_date : Opt(DateTimes)]

ChunkSample(version_date) ==
  [chunk_id |-> Some("c1"), key |-> Some("k1"), content_length |-> Some(1),
   version_date |-> Some(version_date), chunk_hash |-> Some("h1"), dataset_id |-> Some("d1"),
   station_id |-> Some("s1"), height |-> Some(0), chunk_day |-> Some(0), band |-> None]

\* The dimensions of each ResultDims class.
ExactDims == {[f \in DimsFields[c] |-> 1] : c \in DOMAIN DimsFields}

StationInputs ==
  [station_id : {Some("s1")}, ref : Opt({"r1"}), name : {None}, osm_id : {None},
   geometry : {Some(PointGeometry)}, altitude : {None}, properties : PropertiesSamples,
   dataset_id : {Some("d1")}, dimensions : {Some(d) : d \in ExactDims},
   heights : {Some(<<0, 1000>>)},
   time_range : {Some([from_date |-> Some(d), to_date |-> Some(d)]) : d \in DateTimes},
   bands : Opt({<<0, 1>>}),
   stats : {Some(StatsSample), Some([StatsSample EXCEPT !.mean = Some(NaN)])},
   results_chunks : {Some(<<>>)} \cup {Some(<<ChunkSample(d)>>) : d \in DateTimes},
   modified_date : Opt(DateTimes)]

Dates == {Date(d) : d \in 0..MaxSec}

PlanInputs ==
  [plan_id : Opt({"p1"}), plan_name : {Some("plan")}, commencement_date : Opt(Dates),
   plan_authority : {Some("ecan")}]

LimitSample ==
  [value |-> Some(10), period |-> Some("D"), units |-> Some("m3"),
   limit_boundary |-> Some("max"), aggregation_stat |-> None]

AquiferPropSample ==
  [method |-> Some("hunt_1999"), stream_depletion_ratio |-> Some(1), n_days |-> Some(150),
   sep_distance |-> Some(100), pump_aq_trans |-> None, pump_aq_s |-> None,
   upper_aq_trans |-> None, upper_aq_s |-> None, lower_aq_trans |-> None,
   lower_aq_s |-> None, aqt_k |-> None, aqt_s |-> None, aqt_thick |-> None,
   stream_k |-> None, stream_thick |-> None, stream_width |-> None]

PermitStationSample ==
  [station_id |-> Some("s1"), ref |-> None, name |-> Some("well"), osm_id |-> None,
   geometry |-> Some(PointGeometry), altitude |-> None, properties |-> Some(AquiferPropSample)]

ActivitySamples ==
  {[activity_type |-> Some("divert water"), feature |-> Some("surface water"),
    primary_purpose |-> None, station |-> Some(<<>>), condition |-> Some(<<>>)],
   [activity_type |-> Some("consumptive take water"), feature |-> Some("groundwater"),
    primary_purpose |-> Some("irrigation"), station |-> Some(<<PermitStationSample>>),
    condition |-> Some(<<[condition_type |-> Some("abstraction limit"),
                          limit |-> Some(<<LimitSample>>), text |-> Some("limit")]>>)]}

PermitInputs ==
  [permit_id : {Some("p1")}, status : Opt({"Active", "Pending"}),
   status_changed_date : Opt(Dates), commencement_date : {Some(Date(0))},
   expiry_date : {Some(Date(1))}, effective_end_date : {None}, exercised : {Some(TRUE)},
   permitting_authority : {Some("ecan")}, permit_type : {Some("water permit")},
   activity : {Some(a) : a \in ActivitySamples}, modified_date : Opt(DateTimes)]

(***************************************************************************)
(* The calls.                                                              *)
(***************************************************************************)
Init ==
  /\ pc = "call"
  /\ output = <<>>
  /\ \/ op = "render" /\ input \in RenderInputs
     \/ op = "ChunkParams" /\ input \in ChunkParamsInputs
     \/ op = "TimeRange" /\ input \in TimeRangeInputs
     \/ op = "ResultChunk" /\ input \in ResultChunkInputs
     \/ op = "ChunkID" /\ input \in ChunkIDInputs
     \/ op = "StationBase" /\ input \in StationBaseInputs
     \/ op = "Dataset" /\ input \in DatasetInputs
     \/ op = "ParameterAttrs" /\ input \in ParameterAttrsInputs
     \/ op = "DatasetPair" /\ input \in DatasetPairInputs
     \/ op = "Dataset.json" /\ input \in DatasetInputs
     \/ op = "Station.json" /\ input \in StationInputs
     \/ op = "ResultChunk.json" /\ input \in ResultChunkFields
     \/ op = "ResultVersion.json" /\ input \in ResultVersionInputs
     \/ op = "Permit.json" /\ input \in PermitInputs
     \/ op = "Plan.json" /\ input \in PlanInputs
     \/ op = "geometry" /\ input \in GeometryInputs
     \/ op = "render pair" /\ input \in RenderPairInputs

Return(value) ==
  /\ pc = "call"
  /\ pc' = "done"
  /\ output' = value
  /\ UNCHANGED <<op, input>>

RenderKey ==
  /\ op = "render"
  /\ Return(Render(input.version, input.role, input.params))

NewChunkParams ==
  /\ op = "ChunkParams"
  /\ Return(ChunkParams(input))

NewTimeRange ==
  /\ op = "TimeRange"
  /\ Return(TimeRange(input))

NewResultChunk ==
  /\ op = "ResultChunk"
  /\ Return(ResultChunk(input.fields))

NewChunkID ==
  /\ op = "ChunkID"
  /\ Return(ChunkID(input))

NewStationBase ==
  /\ op = "StationBase"
  /\ Return(StationBase(input.fields))

NewDataset ==
  /\ op = "Dataset"
  /\ Return(Dataset(input))

NewParameterAttrs ==
  /\ op = "ParameterAttrs"
  /\ Return(ParameterAttrs(input))

\* Two Dataset records built one after the other.
NewDatasetPair ==
  /\ op = "DatasetPair"
  /\ Return(<<Dataset(input[1]), Dataset(input[2])>>)

RoundTripDataset ==
  /\ op = "Dataset.json"
  /\ Return(DatasetRoundTrip(input))

RoundTripStation ==
  /\ op = "Station.json"
  /\ Return(StationRoundTrip(input))

RoundTripResultChunk ==
  /\ op = "ResultChunk.json"
  /\ Return(ResultChunkRoundTrip(input))

RoundTripResultVersion ==
  /\ op = "ResultVersion.json"
  /\ Return(ResultVersionRoundTrip(input))

RoundTripPermit ==
  /\ op = "Permit.json"
  /\ Return(PermitRoundTrip(input))

RoundTripPlan ==
  /\ op = "Plan.json"
  /\ Return(PlanRoundTrip(input))

NewGeometry ==
  /\ op = "geometry"
  /\ Return(geometry(input))

\* Two keys rendered one after the other.
RenderKeyPair ==
  /\ op = "render pair"
  /\ Return(<<Render(input.version, input.role1, input.params1),
              Render(input.version, input.role2, input.params2)>>)

Next ==
  \/ RenderKey
  \/ NewChunkParams
  \/ NewTimeRange
  \/ NewResultChunk
  \/ NewChunkID
  \/ NewStationBase
  \/ NewDataset
  \/ NewParameterAttrs
  \/ NewDatasetPair
  \/ RoundTripDataset
  \/ RoundTripStation
  \/ RoundTripResultChunk
  \/ RoundTripResultVersion
  \/ RoundTripPermit
  \/ RoundTripPlan
  \/ NewGeometry
  \/ RenderKeyPair

Spec == Init /\ [][Next]_vars

(***************************************************************************)
(* Properties of key rendering.                                            *)
(***************************************************************************)
Rendered == pc = "done" /\ op = "render"

Given(p) == p \in DOMAIN input.params

RenderedStationV4 ==
  Rendered /\ input.version = 4 /\ input.role = "station"
           /\ Given("dataset_id") /\ Given("station_id")

RenderedAbcXyz ==
  RenderedStationV4 /\ input.params["dataset_id"] = Abc /\ input.params["station_id"] = Xyz

\* C1 as the spec states it: version 4, role 'station', dataset_id 'abc' and station_id
\* 'xyz' render to "tethys/v4/abc.xyz.station.json.zst".
C1_StationKeyDotted ==
  RenderedAbcXyz =>
    output.key = <<"t", "e", "t", "h", "y", "s", "/", "v", "4", "/", "a", "b", "c", ".",
                   "x", "y", "z", ".", "s", "t", "a", "t", "i", "o", "n", ".", "j", "s",
                   "o", "n", ".", "z", "s", "t">>

\* C1 amended: the version 4 station key is 'tethys/v4/' + dataset_id + '/' + station_id
\* + '.station.json.zst', whatever other parameters are given; for 'abc' and 'xyz' it is
\* "tethys/v4/abc/xyz.station.json.zst".
C1_StationKeyIsTemplate ==
  /\ RenderedStationV4 =>
       /\ output.status = "ok"
       /\ output.key = <<"t", "e", "t", "h", "y", "s", "/", "v", "4", "/">>
                         \o input.params["dataset_id"] \o <<"/">> \o input.params["station_id"]
                         \o <<".", "s", "t", "a", "t", "i", "o", "n", ".", "j", "s", "o",
                              "n", ".", "z", "s", "t">>
  /\ RenderedAbcXyz =>
       output.key = <<"t", "e", "t", "h", "y", "s", "/", "v", "4", "/", "a", "b", "c", "/",
                      "x", "y", "z", ".", "s", "t", "a", "t", "i", "o", "n", ".", "j", "s",
                      "o", "n", ".", "z", "s", "t">>

C1_Witness ==
  /\ RenderedAbcXyz
  /\ DOMAIN input.params = {"dataset_id", "station_id"}
  /\ output.status = "ok"
  /\ Len(output.key) = 34

Built(model) == pc = "done" /\ op = model

\* The fields a ResultChunk or ChunkID call was given.
ChunkFields == IF op = "ResultChunk" THEN input.fields ELSE input

\* Every field but chunk_day is acceptable.
ChunkOtherwiseValid ==
  LET f == ChunkFields IN
  /\ IsNone(f.band) \/ f.band[1] >= 0
  /\ op = "ResultChunk" =>
       /\ \A k \in {"chunk_id", "key", "version_date", "chunk_hash", "dataset_id",
                    "station_id", "content_length"} : ~IsNone(f[k])
       /\ f.content_length[1] > 0

\* C3: a ResultChunk or ChunkID with chunk_day outside [-106751, 106751] is rejected for
\* its chunk_day; every chunk_day inside the interval, bounds included, is accepted when
\* the other fields are valid.
C3_ChunkDayRange ==
  ((Built("ResultChunk") \/ Built("ChunkID")) /\ ~IsNone(ChunkFields.chunk_day)) =>
    LET day == ChunkFields.chunk_day[1] IN
    /\ (day < -106751 \/ day > 106751) => (~output.ok /\ "chunk_day" \in output.errors)
    /\ (-106751 <= day /\ day <= 106751 /\ ChunkOtherwiseValid) =>
         (output.ok /\ output.value[1].chunk_day = Some(day))

C3_Witness ==
  /\ Built("ResultChunk")
  /\ input.fields.chunk_day = Some(106752)
  /\ ChunkOtherwiseValid
  /\ output.errors = {"chunk_day"}

C5_PresenceMatchesResultType ==
  (Built("ResultChunk") /\ input.dataset_result_type = "trajectory"
     /\ "height" \notin DimsFields[result_type_dict["trajectory"]]
     /\ ~IsNone(input.fields.height)) =>
    ~output.ok

\* The time_range a call was given: the input of TimeRange, or the time_range field of
\* a Dataset or a StationBase.
GivenTimeRange ==
  IF op = "TimeRange" THEN Some(input)
  ELSE IF op = "StationBase" THEN input.fields.time_range
  ELSE input.time_range

\* C6: a TimeRange with from_date later than to_date is rejected at construction, as is a
\* Dataset or a dataset-context station given one as its time_range.
C6_FromBeforeTo ==
  ((Built("TimeRange") \/ Built("Dataset") \/ Built("StationBase"))
     /\ ~IsNone(GivenTimeRange)
     /\ ~IsNone(GivenTimeRange[1].from_date) /\ ~IsNone(GivenTimeRange[1].to_date)
     /\ ~DateTimeLE(GivenTimeRange[1].from_date[1], GivenTimeRange[1].to_date[1])) =>
    ~output.ok

(***************************************************************************)
(* Properties of Dataset and of the station's dimensions.                  *)
(***************************************************************************)
\* C7: a Dataset or ParameterAttrs whose result_type is a string outside the six
\* ResultType values is rejected.
C7_ResultTypeClosed ==
  ((Built("Dataset") \/ Built("ParameterAttrs"))
     /\ ~IsNone(input.result_type) /\ input.result_type[1] \notin ResultType) =>
    ~output.ok

\* C8: dimensions with exactly the fields of the struct that result_type_dict gives for
\* the dataset's result_type validate, as the dimensions of a dataset-context station, to
\* that struct with every field kept.
C8_DimensionsKeepVariant ==
  (Built("StationBase") /\ output.ok
     /\ DOMAIN input.fields.dimensions[1]
          = DimsFields[result_type_dict[input.dataset_result_type]]) =>
    /\ output.value[1].dimensions[1].class = result_type_dict[input.dataset_result_type]
    /\ output.value[1].dimensions[1].fields = input.fields.dimensions[1]

\* C10: two accepted Dataset records that agree on the eight identity fields have the
\* same dataset_id, and two that differ in one of them have different dataset_ids.
C10_DatasetIdFromIdentity ==
  (Built("DatasetPair") /\ output[1].ok /\ output[2].ok) =>
    LET a == output[1].value[1]
        b == output[2].value[1]
    IN (\A f \in DatasetBase : a[f] = b[f]) <=> (a.dataset_id = b.dataset_id)

(***************************************************************************)
(* Properties of the JSON round trip.                                      *)
(***************************************************************************)
RoundTripOps ==
  {"Dataset.json", "Station.json", "ResultChunk.json", "ResultVersion.json", "Permit.json",
   "Plan.json"}

\* A record was built, serialised and parsed back.
RoundTripped == pc = "done" /\ op \in RoundTripOps /\ output.ok

Values(o) == IF IsNone(o) THEN {} ELSE {o[1]}

\* The datetime values held by the record that was serialised.
RecordDateTimes ==
  LET v == output.value[1]
      InTimeRange(o) == UNION {Values(t.from_date) \cup Values(t.to_date) : t \in Values(o)}
  IN IF op = "ResultChunk.json" THEN Values(v.version_date)
     ELSE IF op = "ResultVersion.json" THEN Values(v.version_date) \cup Values(v.modified_date)
     ELSE IF op = "Dataset.json" THEN Values(v.modified_date) \cup InTimeRange(v.time_range)
     ELSE IF op = "Station.json"
     THEN Values(v.modified_date) \cup InTimeRange(v.time_range)
            \cup UNION {Values(v.results_chunks[1][i].version_date) :
                          i \in DOMAIN v.results_chunks[1]}
     ELSE IF op = "Permit.json" THEN Values(v.modified_date)
     ELSE {}

\* The keys of the free-form properties of the record that was serialised.
RecordDictKeys ==
  IF op \in {"Dataset.json", "Station.json"}
  THEN UNION {DOMAIN d : d \in Values(output.value[1].properties)}
  ELSE {}

\* The statistics of the record that was serialised.
RecordStatsFloats ==
  IF op = "Station.json"
  THEN UNION {Values(s.min) \cup Values(s.max) \cup Values(s.mean) \cup Values(s.median) :
                s \in Values(output.value[1].stats)}
  ELSE {}

\* The JSON document says everything the record holds.
JsonExact ==
  /\ \A d \in RecordDateTimes : d.usec = 0
  /\ \A k \in RecordDictKeys : k.type = "str"
  /\ \A f \in RecordStatsFloats : ~f.nan

ParsedBackEqual == output.back[1].ok /\ output.back[1].value = output.value

\* C9 as the spec states it: parsing the JSON serialisation of a valid record gives a
\* record equal to the original, also when a datetime field has a sub-second part.
C9_RoundTripAlways == RoundTripped => ParsedBackEqual

\* C9 amended: parsing the JSON serialisation of a valid record gives a record equal to
\* the original when every datetime in it has a zero sub-second part, every key of its
\* free-form properties is a string and no statistic is NaN; a record with a datetime
\* that has a non-zero sub-second part is not reproduced (the datetime comes back cut
\* to the whole second).
C9_RoundTripWholeSeconds ==
  RoundTripped =>
    /\ JsonExact => ParsedBackEqual
    /\ (\E d \in RecordDateTimes : d.usec # 0) => ~ParsedBackEqual
    /\ (op = "ResultChunk.json" /\ output.back[1].ok) =>
         /\ output.back[1].value[1].version_date[1].sec = output.value[1].version_date[1].sec
         /\ output.back[1].value[1].version_date[1].usec = 0

C9_Witness ==
  /\ RoundTripped
  /\ op = "ResultVersion.json"
  /\ output.value[1].modified_date[1].usec = 500000
  /\ output.back[1].ok
  /\ output.back[1].value[1].modified_date[1].usec = 0

(***************************************************************************)
(* Properties of geometry.                                                 *)
(***************************************************************************)
\* The nesting depth of each variant's coordinates above the coordinate tuple.
VariantDepth ==
  [Point |-> 0, LineString |-> 1, MultiPoint |-> 1, MultiLineString |-> 2, Polygon |-> 2,
   MultiPolygon |-> 3]

\* c is d levels of non-empty lists around coordinate tuples of 2 or 3 numbers.
RECURSIVE NestedTuples(_, _)
NestedTuples(c, d) ==
  /\ ~c.leaf
  /\ c.items # <<>>
  /\ IF d = 0
     THEN Len(c.items) \in {2, 3} /\ \A i \in DOMAIN c.items : c.items[i].leaf
     ELSE \A i \in DOMAIN c.items : NestedTuples(c.items[i], d - 1)

\* C11: an accepted geometry has one of the six type tags, coordinates of the nesting
\* depth of that variant with every leaf tuple of length 2 or 3 and no empty array at
\* any level, and the accepted value is the variant the type tag names.
C11_GeometryAccepted ==
  (Built("geometry") /\ output.ok) =>
    /\ input.type \in GeometryTypes
    /\ NestedTuples(input.coordinates, VariantDepth[input.type])
    /\ output.value[1].class = input.type
    /\ output.value[1].coordinates = input.coordinates

C11_Witness ==
  /\ Built("geometry") /\ output.ok
  /\ input.type = "MultiPolygon"
  /\ Len(input.coordinates.items[1].items[1].items[1].items) = 3

(***************************************************************************)
(* Properties of the key_patterns table.                                   *)
(***************************************************************************)
\* The template a rendering call looks up, when its version and role are registered.
Registered ==
  /\ op = "render"
  /\ input.version \in DOMAIN key_patterns
  /\ input.role \in DOMAIN key_patterns[input.version]

LookedUp == key_patterns[input.version][input.role]

\* The literal text a template starts with.
LeadingText(template) == IF template[1].field = "" THEN template[1].text ELSE <<>>

StartsWith(text, prefix) ==
  Len(text) >= Len(prefix) /\ SubSeq(text, 1, Len(prefix)) = prefix

VersionDigit == 2 :> "2" @@ 3 :> "3" @@ 4 :> "4"

\* 'tethys/vN' followed by the separator sep.
VersionPrefix(version, sep) ==
  <<"t", "e", "t", "h", "y", "s", "/", "v", VersionDigit[version], sep>>

\* C12: the registry holds one template set for each of the versions 2, 3 and 4, and
\* every template registered under version N begins with 'tethys/vN/'.
C12_PrefixSlash ==
  /\ DOMAIN key_patterns = {2, 3, 4}
  /\ Registered => StartsWith(LeadingText(LookedUp), VersionPrefix(input.version, "/"))

\* C12, as the table has it: one template set for each of the versions 2, 3 and 4; every
\* template registered under version N begins with 'tethys/vN', followed by '.' in the
\* 'datasets' templates of versions 3 and 4 and by '/' in every other template; a
\* rendered key begins as its template does.
C12_PrefixVersion ==
  /\ DOMAIN key_patterns = {2, 3, 4}
  /\ Registered =>
       LET sep == IF input.role = "datasets" /\ input.version \in {3, 4} THEN "." ELSE "/"
       IN /\ StartsWith(LeadingText(LookedUp), VersionPrefix(input.version, sep))
          /\ (Rendered /\ output.status = "ok") =>
               StartsWith(output.key, VersionPrefix(input.version, sep))

C12_Witness ==
  /\ Rendered /\ output.status = "ok"
  /\ input.role = "datasets" /\ input.version = 3
  /\ StartsWith(output.key, VersionPrefix(3, "."))

(***************************************************************************)
(* Properties of two rendered keys.                                        *)
(***************************************************************************)
RenderedPair == pc = "done" /\ op = "render pair"

BothRendered == RenderedPair /\ output[1].status = "ok" /\ output[2].status = "ok"

\* C13: under version 4, the 'results' keys of two different tuples (dataset_id,
\* station_id, chunk_id, version_date) are different.
C13_ResultsKeyUnique ==
  (BothRendered /\ input.version = 4
     /\ input.role1 = "results" /\ input.role2 = "results"
     /\ input.params1 # input.params2) =>
    output[1].key # output[2].key

\* Every value of a parameter set is non-empty and holds no '/'.
PlainValues(params) ==
  \A p \in DOMAIN params :
    params[p] # <<>> /\ \A i \in DOMAIN params[p] : params[p][i] # "/"

\* C15: within one version, the keys rendered for two different roles with non-empty
\* identifier values holding no '/' are different.
C15_RolesKeysDistinct ==
  (BothRendered /\ input.role1 # input.role2
     /\ PlainValues(input.params1) /\ PlainValues(input.params2)) =>
    output[1].key # output[2].key

(***************************************************************************)
(* Properties of the addressing of results.                                *)
(***************************************************************************)
\* The placeholders the claim gives for the 'results' template of a version.
ResultsPlaceholders(version) ==
  IF version = 4 THEN {"dataset_id", "station_id", "chunk_id", "version_date"}
  ELSE {"dataset_id", "station_id", "run_date"}

====
